---- MODULE Spec2Model ----
(***************************************************************************)
(* Heart-disease prediction service: the plain deployment                  *)
(* (deployment/app/main.py) and the monitored deployment                   *)
(* (docker_monitor/app/main.py).                                           *)
(*                                                                         *)
(* Conventions                                                             *)
(*   - Python None is the empty tuple <<>>, a present value x is <<x>>.    *)
(*   - A message (str(e), an f-string) is a sequence of its parts.         *)
(*   - A probability is fixed-point, in units of 1e-5 (0.5 is 50000).      *)
(*   - A JSON value is a record [t |-> "num" | "str" | "null", v |-> Int]. *)
(***************************************************************************)
EXTENDS Integers, Sequences, FiniteSets, TLC

VARIABLES entry, artifact, phase, model, load_error,
          pc, req, resp, hist,
          ACTIVE_USERS, REQUEST_COUNT, PREDICTIONS, REQUEST_DURATION,
          probe, faulty

vars == <<entry, artifact, phase, model, load_error, pc, req, resp, hist,
          ACTIVE_USERS, REQUEST_COUNT, PREDICTIONS, REQUEST_DURATION, probe,
          faulty>>

----------------------------------------------------------------------------
(* Bounds *)

\* Number of requests the process serves (each slot carries one request).
NReq == 2

----------------------------------------------------------------------------
(* Values *)

None == <<>>
Some(x) == <<x>>

Num(n) == [t |-> "num", v |-> n]
NonNumeric == [t |-> "str", v |-> 0]
Null == [t |-> "null", v |-> 0]

\* The two serving entry points.
Entries == {"deployment", "docker_monitor"}

\* deployment/app/main.py:19 (the monitored deployment hard-codes the same
\* relative location).
MODEL_PATH == "models/heart_disease_pipeline_prod.joblib"

\* What the file system holds at MODEL_PATH when the process starts: nothing,
\* a file joblib cannot deserialize, or a pipeline with or without
\* predict_proba.
Artifacts ==
    {[state |-> "missing", has_proba |-> FALSE],
     [state |-> "corrupt", has_proba |-> FALSE],
     [state |-> "ok", has_proba |-> TRUE],
     [state |-> "ok", has_proba |-> FALSE]}

\* str(e) of the error joblib.load raises on a corrupt artifact.
DeserializeError == <<"invalid load key">>

\* 0.5, the literal both handlers compare the probability with.
Half == 50000

\* float(label): 0 -> 0.0, 1 -> 1.0
AsFloat(label) == label * (2 * Half)

\* Probabilities a handle's predict_proba may report for the positive class.
ProbaValues == {10000, 49999, 50000, 50001, 70000}

\* Wall-clock durations (ms) a request may take.
Durations == {3}

\* What the handle does when called for one request: predict raises, or it
\* returns a label and predict_proba (if called) raises or returns a
\* probability. The handle is deterministic on identical input, so one label
\* serves every predict call of the request.
Outcome(p_raise, label, pp_raise, proba) ==
    [p_raise |-> p_raise, label |-> label, pp_raise |-> pp_raise,
     proba |-> proba]
Outcomes ==
    {Outcome(TRUE, 0, FALSE, 10000)}
        \cup {Outcome(FALSE, l, TRUE, 10000) : l \in {0, 1}}
        \cup {Outcome(FALSE, l, FALSE, p) : l \in {0, 1}, p \in ProbaValues}

\* model.predict_proba(features)[0]: the row of class probabilities, the
\* negative class first.
predict_proba(out) == <<2 * Half - out.proba, out.proba>>

\* A row read at index 0.
negative_class(row) == row[1]

\* row[1] in Python: the second entry, the mass of the positive class.
positive_class(row) == row[2]

PredictError == <<"X has 12 features, but ColumnTransformer is expecting 13">>
ProbaError == <<"Input contains NaN">>
NoneTypeError == <<"'NoneType' object has no attribute 'predict'">>
NoProbaError == <<"'Pipeline' object has no attribute 'predict_proba'">>

\* The metric objects of the monitored deployment, and str(e) of the error a
\* broken one raises. `faulty` holds the broken ones: every operation on them
\* raises and changes nothing.
Sinks == {"ACTIVE_USERS", "REQUEST_COUNT", "PREDICTIONS", "REQUEST_DURATION"}
SinkError == <<"metric operation failed">>

----------------------------------------------------------------------------
(* Request boundary: class HeartPatient *)

\* The fields of HeartPatient with their declared types, in declaration order.
HeartPatientFields ==
    << <<"age", "float">>, <<"sex", "int">>, <<"cp", "int">>,
       <<"trestbps", "float">>, <<"chol", "float">>, <<"fbs", "int">>,
       <<"restecg", "int">>, <<"thalach", "float">>, <<"exang", "int">>,
       <<"oldpeak", "float">>, <<"slope", "int">>, <<"ca", "float">>,
       <<"thal", "int">> >>

FieldNames == {HeartPatientFields[i][1] : i \in 1..Len(HeartPatientFields)}

\* Fields of the class that carry a default value: none.
DefaultedNoThal == [f \in {"thal"} |-> 0]
Defaulted == [f \in {} |-> 0]

\* A body is a JSON object: the sequence of its <<name, value>> members in the
\* order the client wrote them.
Has(body, f) == \E i \in 1..Len(body) : body[i][1] = f
Get(body, f) == body[CHOOSE i \in 1..Len(body) : body[i][1] = f][2]

\* Whether a value passes the declared type of a field. Both int and float
\* accept a JSON number; neither accepts null or a non-numeric string. Only the
\* type is looked at: the class declares no range constraint.
Accepts(type, value) == type \in {"int", "float"} /\ value.t = "num"

\* HeartPatient(**body): ok with the parsed record, or a validation error.
HeartPatient(body) ==
    LET present(f) == Has(body, f) \/ f \in DOMAIN Defaulted
        raw(f) == IF Has(body, f) THEN Get(body, f) ELSE Num(Defaulted[f])
        ok == \A i \in 1..Len(HeartPatientFields) :
                 LET f == HeartPatientFields[i][1]
                     ty == HeartPatientFields[i][2]
                 IN  present(f) /\ Accepts(ty, raw(f))
    IN  IF ok
        THEN [ok |-> TRUE, data |-> [f \in FieldNames |-> raw(f).v]]
        ELSE [ok |-> FALSE, data |-> [f \in FieldNames |-> 0]]

----------------------------------------------------------------------------
(* Feature vector builders *)

\* A numeric list that leaves ca to no transformer.
numeric_features_no_ca == <<"age", "trestbps", "chol", "thalach", "oldpeak">>

\* src/train_pipeline.py:27-28: the columns the ColumnTransformer of the
\* fitted pipeline selects by name, scaled and one-hot encoded respectively.
numeric_features == <<"age", "trestbps", "chol", "thalach", "oldpeak", "ca">>
categorical_features ==
    <<"sex", "cp", "fbs", "restecg", "exang", "slope", "thal">>

\* A column list with two neighbours exchanged.
column_names_swapped ==
    <<"age", "sex", "cp", "chol", "trestbps", "fbs", "restecg",
      "thalach", "exang", "oldpeak", "slope", "ca", "thal">>

\* deployment/app/main.py:66
column_names ==
    <<"age", "sex", "cp", "trestbps", "chol", "fbs", "restecg",
      "thalach", "exang", "oldpeak", "slope", "ca", "thal">>

\* docker_monitor/app/main.py:73
feature_columns ==
    <<"age", "sex", "cp", "trestbps", "chol", "fbs", "restecg",
      "thalach", "exang", "oldpeak", "slope", "ca", "thal">>

\* pd.DataFrame([[data.age, data.sex, ...]], columns=column_names): one row
\* written positionally, labelled by column_names. A data frame row is the
\* sequence of its <<column, value>> cells.
deployment_features(data) ==
    LET row == <<data.age, data.sex, data.cp, data.trestbps, data.chol,
                 data.fbs, data.restecg, data.thalach, data.exang,
                 data.oldpeak, data.slope, data.ca, data.thal>>
    IN  [i \in 1..Len(row) |-> <<column_names[i], row[i]>>]

\* pd.DataFrame([patient.dict()])[feature_columns]: columns selected by name.
monitor_features(data) ==
    [i \in 1..Len(feature_columns) |->
        <<feature_columns[i], data[feature_columns[i]]>>]

----------------------------------------------------------------------------
(* Handlers. A handler's result is                                         *)
(*   resp      the response sent (an HTTPException is turned into its      *)
(*             response by the framework), meaningless when raised         *)
(*   raised    an exception left the handler that is no HTTPException      *)
(*   calls     how many calls of the model handle were attempted           *)
(*   features  the data frame handed to the model, if one was built        *)
(*   locals    the handler's prediction and probability, once computed     *)
(*   exc       str(e) of the exception the handler's except clause caught  *)
(*   counted   the label PREDICTIONS was incremented for, if any           *)
(*   observed  the duration REQUEST_DURATION observed, if any              *)

Result(r, raised, calls, features, locals, counted, observed) ==
    [resp |-> r, raised |-> raised, calls |-> calls, features |-> features,
     locals |-> locals, exc |-> None, counted |-> counted,
     observed |-> observed]

\* The framework's answer to a body HeartPatient rejects.
ValidationErrorResponse == [status |-> 422, detail |-> <<"validation error">>]

\* raise HTTPException(status_code=400, detail=...)
HTTPException(status_code, detail) == [status |-> status_code, detail |-> detail]

\* deployment/app/main.py read_root
deployment_read_root_gated ==
    IF model = None
    THEN [status |-> 503, message |-> "Heart Disease Prediction API"]
    ELSE [status |-> 200, message |-> "Heart Disease Prediction API"]
deployment_read_root ==
    [status |-> 200, message |-> "Heart Disease Prediction API"]

\* docker_monitor/app/main.py root
monitor_root ==
    [status |-> 200, message |-> "Heart Disease API (MONITORED)",
     metrics |-> "/metrics"]

\* "HIGH" if probability > 0.5 else "LOW"
deployment_risk_ge(probability) == IF probability >= Half THEN "HIGH" ELSE "LOW"
deployment_risk(probability) == IF probability > Half THEN "HIGH" ELSE "LOW"

\* "HIGH RISK" if probability > 0.5 else "LOW RISK"
monitor_risk_level(probability) ==
    IF probability > Half THEN "HIGH RISK" ELSE "LOW RISK"

\* A probability passed on as it is.
Unrounded(p) == p

\* round(probability, 4); no modelled probability lies halfway.
Round4(p) == ((p + 5) \div 10) * 10

\* f"{duration:.3f}s", the duration being in milliseconds here.
Format3f(ms) == <<ms \div 1000, ms % 1000, "s">>

\* deployment/app/main.py:87-88
\*   except Exception as e: raise HTTPException(status_code=400, detail=str(e))
deployment_except(e, calls, features) ==
    [Result(HTTPException(400, e), FALSE, calls, Some(features),
            None, None, None) EXCEPT !.exc = Some(e)]

\* deployment/app/main.py predict: the whole body is inside try.
deployment_predict(data, out) ==
    LET features == deployment_features(data)
        fail(msg, calls) == deployment_except(msg, calls, features)
    IN  IF model = None THEN fail(NoneTypeError, 0)
        ELSE IF out.p_raise THEN fail(PredictError, 1)
        ELSE IF model[1].has_proba /\ out.pp_raise THEN fail(ProbaError, 2)
        ELSE LET prediction == out.label
                 probability == IF model[1].has_proba
                                THEN positive_class(predict_proba(out))
                                ELSE AsFloat(out.label)
             IN  Result([status |-> 200,
                         prediction |-> prediction,
                         probability |-> probability,
                         risk |-> deployment_risk(probability)],
                        FALSE, 2, Some(features),
                        Some([prediction |-> prediction,
                              probability |-> probability]),
                        None, None)

\* An except clause that lets the exception go on.
monitor_except_reraise(e, calls, test_df) ==
    [Result(HTTPException(500, <<>>), TRUE, calls, Some(test_df),
            None, None, None) EXCEPT !.exc = Some(e)]

\* docker_monitor/app/main.py:95-97
\*   except Exception as e:
\*       raise HTTPException(status_code=400, detail=f"Prediction error: {str(e)}")
monitor_except(e, calls, test_df) ==
    [Result(HTTPException(400, <<"Prediction error: ">> \o e), FALSE,
            calls, Some(test_df), None, None, None) EXCEPT !.exc = Some(e)]

\* docker_monitor/app/main.py predict: predict_proba is called without asking
\* whether the handle has it; the calls are inside try, and so are
\* PREDICTIONS.labels(...).inc() and REQUEST_DURATION.observe(duration).
monitor_predict(data, out, duration) ==
    LET test_df == monitor_features(data)
        fail(msg, calls) == monitor_except(msg, calls, test_df)
    IN  IF model = None THEN fail(NoneTypeError, 0)
        ELSE IF out.p_raise THEN fail(PredictError, 1)
        ELSE IF ~model[1].has_proba THEN fail(NoProbaError, 1)
        ELSE IF out.pp_raise THEN fail(ProbaError, 2)
        ELSE LET prediction == out.label
                 probability == positive_class(predict_proba(out))
                 locals == Some([prediction |-> prediction,
                                 probability |-> probability])
             IN  IF "PREDICTIONS" \in faulty
                 THEN [fail(SinkError, 2) EXCEPT !.locals = locals]
                 ELSE IF "REQUEST_DURATION" \in faulty
                 THEN [fail(SinkError, 2) EXCEPT
                          !.locals = locals,
                          !.counted = Some(ToString(prediction))]
                 ELSE
                 Result([status |-> 200,
                         prediction |-> prediction,
                         confidence |-> Round4(probability),
                         risk_level |-> monitor_risk_level(probability),
                         response_time |-> Format3f(duration)],
                        FALSE, 2, Some(test_df),
                        Some([prediction |-> prediction,
                              probability |-> probability]),
                        Some(ToString(prediction)), Some(duration))

\* POST /predict as the framework runs it: the body has been validated
\* against HeartPatient (parsed), and the handler runs only on a valid record.
post_predict(e, parsed, out, duration) ==
    IF ~parsed.ok
    THEN Result(ValidationErrorResponse, FALSE, 0, None, None, None, None)
    ELSE IF e = "deployment"
         THEN deployment_predict(parsed.data, out)
         ELSE monitor_predict(parsed.data, out, duration)

\* GET /
get_root(e) ==
    Result(IF e = "deployment" THEN deployment_read_root ELSE monitor_root,
           FALSE, 0, None, None, None, None)

----------------------------------------------------------------------------
(* Request bodies *)

NFields == Len(HeartPatientFields)

\* The record of the end-to-end scenario, and one with other values.
RecordA ==
    [age |-> 45, sex |-> 1, cp |-> 0, trestbps |-> 120, chol |-> 200,
     fbs |-> 0, restecg |-> 0, thalach |-> 150, exang |-> 0, oldpeak |-> 0,
     slope |-> 1, ca |-> 0, thal |-> 3]
RecordB ==
    [age |-> 60, sex |-> 0, cp |-> 3, trestbps |-> 145, chol |-> 233,
     fbs |-> 1, restecg |-> 2, thalach |-> 151, exang |-> 1, oldpeak |-> 2,
     slope |-> 2, ca |-> 4, thal |-> 1]
Records == {RecordA, RecordB}

\* Orders in which a client may write the members of the body.
Declared == [i \in 1..NFields |-> i]
Reversed == [i \in 1..NFields |-> NFields + 1 - i]
Rotated == [i \in 1..NFields |-> (i % NFields) + 1]
Orders == {Declared, Reversed, Rotated}

\* What a client may get wrong: a member left out, or a member given a value
\* that is negative, zero, too large for a category, no number, or null.
Intact == [kind |-> "none", f |-> "", value |-> Null]
Omit(f) == [kind |-> "omit", f |-> f, value |-> Null]
Set(f, v) == [kind |-> "set", f |-> f, value |-> v]
BadValues == {Num(0 - 1), Num(0), Num(9), NonNumeric, Null}
Mutations ==
    {Intact} \cup {Omit(f) : f \in FieldNames}
             \cup {Set(f, v) : f \in FieldNames, v \in BadValues}

Body(rec, order, mut) ==
    LET full == [i \in 1..NFields |->
                    LET f == HeartPatientFields[order[i]][1]
                    IN  <<f, IF mut.kind = "set" /\ mut.f = f
                             THEN mut.value ELSE Num(rec[f])>>]
        kept(m) == ~(mut.kind = "omit" /\ m[1] = mut.f)
    IN  SelectSeq(full, kept)

Bodies == {Body(rec, o, m) : rec \in Records, o \in Orders, m \in Mutations}

\* Bodies sent to the running service: a valid record, one without thal, one
\* whose sex is no number.
ServeBodies ==
    {Body(RecordA, Declared, Intact),
     Body(RecordB, Reversed, Omit("thal")),
     Body(RecordA, Rotated, Set("sex", NonNumeric))}

\* What the request boundary makes of them.
ServeParsed == {HeartPatient(b) : b \in ServeBodies}

----------------------------------------------------------------------------
(* Process state *)

Slots == 1..NReq

\* What is remembered of a request beside its response.
NoHist ==
    [raised |-> FALSE, calls |-> 0, valid |-> FALSE, locals |-> None,
     exc |-> None, incs |-> 0, decs |-> 0]

NoProbe ==
    [stage |-> "off", body |-> <<>>, data |-> None, features |-> None,
     resp |-> None, calls |-> 0, out |-> None]

\* An inc() that starts the child anew each time.
IncOverwrite(counter, labels) == (labels :> 1) @@ counter

\* Counter(...).labels(...).inc(): the child is created on first use.
Inc(counter, labels) ==
    IF labels \in DOMAIN counter
    THEN [counter EXCEPT ![labels] = @ + 1]
    ELSE counter @@ (labels :> 1)

\* The module's globals before the import runs the load.
Start ==
    /\ entry \in Entries
    /\ artifact \in Artifacts
    /\ phase = "import"
    /\ model = None
    /\ load_error = None
    /\ pc = [r \in Slots |-> "idle"]
    /\ req = [r \in Slots |-> None]
    /\ resp = [r \in Slots |-> None]
    /\ hist = [r \in Slots |-> NoHist]
    /\ ACTIVE_USERS = 0
    /\ REQUEST_COUNT = <<>>
    /\ PREDICTIONS = <<>>
    /\ REQUEST_DURATION = [count |-> 0, sum |-> 0]
    /\ probe = NoProbe

\* The metric objects work.
Init == Start /\ faulty = {}

requests == <<pc, req, resp, hist>>
metrics == <<ACTIVE_USERS, REQUEST_COUNT, PREDICTIONS, REQUEST_DURATION>>

\* A load put off until the server is up: the import only declares the two
\* globals, and a later step fills them in.
deployment_load_lazy ==
    /\ entry = "deployment"
    /\ \/ /\ phase = "import"
          /\ phase' = "serving"
          /\ UNCHANGED <<model, load_error>>
       \/ /\ phase = "serving"
          /\ model = None
          /\ load_error = None
          /\ phase' = phase
          /\ IF artifact.state = "ok"
             THEN /\ model' = Some([has_proba |-> artifact.has_proba])
                  /\ load_error' = None
             ELSE /\ model' = None
                  /\ load_error' = Some(DeserializeError)
    /\ UNCHANGED <<entry, artifact, faulty, requests, metrics, probe>>

\* A load whose except branch records nothing.
deployment_load_silent ==
    /\ entry = "deployment"
    /\ phase = "import"
    /\ model' = IF artifact.state = "ok"
                THEN Some([has_proba |-> artifact.has_proba])
                ELSE None
    /\ load_error' = None
    /\ phase' = "serving"
    /\ UNCHANGED <<entry, artifact, faulty, requests, metrics, probe>>

\* deployment/app/main.py:24-37: the load is inside try; any Exception is
\* recorded in load_error and the import goes on.
deployment_load ==
    /\ entry = "deployment"
    /\ phase = "import"
    /\ IF artifact.state = "missing"
       THEN /\ model' = None
            /\ load_error' = Some(<<"Model file not found: ", MODEL_PATH>>)
       ELSE IF artifact.state = "corrupt"
       THEN /\ model' = None
            /\ load_error' = Some(DeserializeError)
       ELSE /\ model' = Some([has_proba |-> artifact.has_proba])
            /\ load_error' = None
    /\ phase' = "serving"
    /\ UNCHANGED <<entry, artifact, faulty, requests, metrics, probe>>

\* docker_monitor/app/main.py:27: joblib.load at module level, outside any
\* try; an exception ends the import and the process with it. The module has
\* no load_error.
monitor_load ==
    /\ entry = "docker_monitor"
    /\ phase = "import"
    /\ IF artifact.state = "ok"
       THEN /\ model' = Some([has_proba |-> artifact.has_proba])
            /\ phase' = "serving"
       ELSE /\ model' = None
            /\ phase' = "aborted"
    /\ UNCHANGED <<entry, artifact, faulty, load_error, requests, metrics, probe>>

----------------------------------------------------------------------------
(* Requests *)

GetRoot == [method |-> "GET", path |-> "/"]
PostPredict == [method |-> "POST", path |-> "/predict"]
GetMetrics == [method |-> "GET", path |-> "/metrics"]

\* The server's answer to an exception that left the application.
InternalServerError == [status |-> 500, detail |-> <<"Internal Server Error">>]

\* The part of a handler's result that is remembered, for a request the
\* middleware has incremented the gauge for `incs` times.
Remember(res, valid, incs) ==
    [raised |-> res.raised, calls |-> res.calls, valid |-> valid,
     locals |-> res.locals, exc |-> res.exc, incs |-> incs, decs |-> 0]

\* The plain deployment has no middleware and its handlers are plain
\* functions touching no shared mutable state: a request is one step.
deployment_request(r) ==
    /\ entry = "deployment"
    /\ phase = "serving"
    /\ pc[r] = "idle"
    /\ \/ /\ req' = [req EXCEPT ![r] = Some(GetRoot)]
          /\ resp' = [resp EXCEPT ![r] = Some(get_root(entry).resp)]
          /\ hist' = [hist EXCEPT ![r] = Remember(get_root(entry), TRUE, 0)]
       \/ \E parsed \in ServeParsed, out \in Outcomes, d \in Durations :
             LET res == post_predict(entry, parsed, out, d)
             IN  /\ req' = [req EXCEPT ![r] = Some(PostPredict)]
                 /\ resp' = [resp EXCEPT ![r] = Some(res.resp)]
                 /\ hist' = [hist EXCEPT ![r] = Remember(res, parsed.ok, 0)]
    /\ pc' = [pc EXCEPT ![r] = "done"]
    /\ UNCHANGED <<entry, artifact, faulty, phase, model, load_error, metrics, probe>>

\* A middleware that sets the gauge to one where it should add one.
prometheus_metrics_enter_set(r) ==
    /\ entry = "docker_monitor"
    /\ phase = "serving"
    /\ pc[r] = "idle"
    /\ \E rq \in {GetRoot, PostPredict, GetMetrics} :
          req' = [req EXCEPT ![r] = Some(rq)]
    /\ ACTIVE_USERS' = 1
    /\ hist' = [hist EXCEPT ![r].incs = @ + 1]
    /\ pc' = [pc EXCEPT ![r] = "call_next"]
    /\ UNCHANGED <<entry, artifact, faulty, phase, model, load_error, resp,
                   REQUEST_COUNT, PREDICTIONS, REQUEST_DURATION, probe>>

\* docker_monitor/app/main.py:46-48: the middleware up to its await.
\* ACTIVE_USERS.inc() stands before the try: if it raises, the exception
\* leaves the middleware and the server answers 500.
prometheus_metrics_enter(r) ==
    /\ entry = "docker_monitor"
    /\ phase = "serving"
    /\ pc[r] = "idle"
    /\ \E rq \in {GetRoot, PostPredict, GetMetrics} :
          req' = [req EXCEPT ![r] = Some(rq)]
    /\ IF "ACTIVE_USERS" \in faulty
       THEN /\ ACTIVE_USERS' = ACTIVE_USERS
            /\ hist' = [hist EXCEPT ![r].raised = TRUE]
            /\ resp' = [resp EXCEPT ![r] = Some(InternalServerError)]
            /\ pc' = [pc EXCEPT ![r] = "done"]
       ELSE /\ ACTIVE_USERS' = ACTIVE_USERS + 1
            /\ hist' = [hist EXCEPT ![r].incs = @ + 1]
            /\ resp' = resp
            /\ pc' = [pc EXCEPT ![r] = "call_next"]
    /\ UNCHANGED <<entry, artifact, faulty, phase, model, load_error,
                   REQUEST_COUNT, PREDICTIONS, REQUEST_DURATION, probe>>

\* await call_next(request): everything beneath the middleware. root and
\* predict have no await of their own, so each runs in one step. /metrics is
\* served by the Instrumentator, whose handler may answer or raise.
prometheus_metrics_call_next(r) ==
    /\ pc[r] = "call_next"
    /\ \E res \in
          IF req[r][1] = GetRoot
          THEN {[res |-> get_root(entry), valid |-> TRUE]}
          ELSE IF req[r][1] = PostPredict
          THEN {[res |-> post_predict(entry, parsed, out, d),
                 valid |-> parsed.ok] :
                    parsed \in ServeParsed, out \in Outcomes, d \in Durations}
          ELSE {[res |-> Result([status |-> 200, text |-> "metrics"], raised,
                                0, None, None, None, None),
                 valid |-> TRUE] : raised \in BOOLEAN} :
          /\ resp' = [resp EXCEPT ![r] = Some(res.res.resp)]
          /\ hist' = [hist EXCEPT ![r] = Remember(res.res, res.valid, @.incs)]
          /\ PREDICTIONS' =
                IF res.res.counted = None THEN PREDICTIONS
                ELSE Inc(PREDICTIONS, <<res.res.counted[1]>>)
          /\ REQUEST_DURATION' =
                IF res.res.observed = None THEN REQUEST_DURATION
                ELSE [count |-> REQUEST_DURATION.count + 1,
                      sum |-> REQUEST_DURATION.sum + res.res.observed[1]]
    /\ pc' = [pc EXCEPT ![r] = "after_call"]
    /\ UNCHANGED <<entry, artifact, faulty, phase, model, load_error, req,
                   ACTIVE_USERS, REQUEST_COUNT, probe>>

\* A middleware whose except branch forgets the gauge.
prometheus_metrics_exit_leaky(r) ==
    /\ pc[r] = "after_call"
    /\ IF ~hist[r].raised
       THEN /\ REQUEST_COUNT' =
                 Inc(REQUEST_COUNT,
                     <<req[r][1].method, req[r][1].path, resp[r][1].status>>)
            /\ ACTIVE_USERS' = ACTIVE_USERS - 1
            /\ hist' = [hist EXCEPT ![r].decs = @ + 1]
            /\ resp' = resp
       ELSE /\ ACTIVE_USERS' = ACTIVE_USERS
            /\ hist' = hist
            /\ REQUEST_COUNT' =
                 Inc(REQUEST_COUNT, <<req[r][1].method, req[r][1].path, 500>>)
            /\ resp' = [resp EXCEPT ![r] = Some(InternalServerError)]
    /\ pc' = [pc EXCEPT ![r] = "done"]
    /\ UNCHANGED <<entry, artifact, faulty, phase, model, load_error, req,
                   PREDICTIONS, REQUEST_DURATION, probe>>

\* docker_monitor/app/main.py:52-60: after the await. With a response in hand
\* the request is counted under its status and the gauge decremented; on an
\* exception the gauge is decremented, the request counted under 500 and the
\* exception raised again, which the server answers with a 500.
\* If REQUEST_COUNT is broken, its inc() raises on either path: raised in
\* the try it is caught by the except branch, which decrements the gauge and
\* calls inc() again, and that exception leaves the middleware. (A request
\* gets here only if ACTIVE_USERS works.)
prometheus_metrics_exit(r) ==
    /\ pc[r] = "after_call"
    /\ IF "REQUEST_COUNT" \in faulty
       THEN /\ ACTIVE_USERS' = ACTIVE_USERS - 1
            /\ REQUEST_COUNT' = REQUEST_COUNT
            /\ resp' = [resp EXCEPT ![r] = Some(InternalServerError)]
            /\ hist' = [hist EXCEPT ![r].decs = @ + 1, ![r].raised = TRUE]
       ELSE IF ~hist[r].raised
       THEN /\ REQUEST_COUNT' =
                 Inc(REQUEST_COUNT,
                     <<req[r][1].method, req[r][1].path, resp[r][1].status>>)
            /\ ACTIVE_USERS' = ACTIVE_USERS - 1
            /\ resp' = resp
            /\ hist' = [hist EXCEPT ![r].decs = @ + 1]
       ELSE /\ ACTIVE_USERS' = ACTIVE_USERS - 1
            /\ REQUEST_COUNT' =
                 Inc(REQUEST_COUNT, <<req[r][1].method, req[r][1].path, 500>>)
            /\ resp' = [resp EXCEPT ![r] = Some(InternalServerError)]
            /\ hist' = [hist EXCEPT ![r].decs = @ + 1]
    /\ pc' = [pc EXCEPT ![r] = "done"]
    /\ UNCHANGED <<entry, artifact, faulty, phase, model, load_error, req,
                   PREDICTIONS, REQUEST_DURATION, probe>>

Next ==
    \/ deployment_load
    \/ monitor_load
    \/ \E r \in Slots : deployment_request(r)
    \/ \E r \in Slots : prometheus_metrics_enter(r)
    \/ \E r \in Slots : prometheus_metrics_call_next(r)
    \/ \E r \in Slots : prometheus_metrics_exit(r)

Spec == Init /\ [][Next]_vars

\* The same process with one of its metric objects broken.
InitSink == Start /\ faulty \in {{s} : s \in Sinks}

SpecSink == InitSink /\ [][Next]_vars

----------------------------------------------------------------------------
(* One POST /predict followed through the request boundary and the handler, *)
(* for every body of Bodies, in a process whose load succeeded.              *)

InitBoundary ==
    /\ entry \in Entries
    /\ artifact \in {a \in Artifacts : a.state = "ok"}
    /\ phase = "serving"
    /\ model = Some([has_proba |-> artifact.has_proba])
    /\ load_error = None
    /\ pc = [r \in Slots |-> "idle"]
    /\ req = [r \in Slots |-> None]
    /\ resp = [r \in Slots |-> None]
    /\ hist = [r \in Slots |-> NoHist]
    /\ ACTIVE_USERS = 0
    /\ REQUEST_COUNT = <<>>
    /\ PREDICTIONS = <<>>
    /\ REQUEST_DURATION = [count |-> 0, sum |-> 0]
    /\ probe \in {[NoProbe EXCEPT !.stage = "received", !.body = b] :
                     b \in Bodies}
    /\ faulty = {}

\* The framework parses the body into the handler's HeartPatient parameter,
\* and answers 422 itself when that fails.
validate_body ==
    /\ probe.stage = "received"
    /\ LET parsed == HeartPatient(probe.body)
       IN  IF parsed.ok
           THEN probe' = [probe EXCEPT !.stage = "validated",
                                       !.data = Some(parsed.data)]
           ELSE probe' = [probe EXCEPT !.stage = "rejected",
                                       !.resp = Some(ValidationErrorResponse)]
    /\ UNCHANGED <<entry, artifact, faulty, phase, model, load_error, requests, metrics>>

\* The handler runs on the validated record.
invoke_handler ==
    /\ probe.stage = "validated"
    /\ \E out \in Outcomes, d \in Durations :
          LET res == IF entry = "deployment"
                     THEN deployment_predict(probe.data[1], out)
                     ELSE monitor_predict(probe.data[1], out, d)
          IN  probe' = [probe EXCEPT !.stage = "handled",
                                     !.features = res.features,
                                     !.resp = Some(res.resp),
                                     !.calls = res.calls,
                                     !.out = Some(out)]
    /\ UNCHANGED <<entry, artifact, faulty, phase, model, load_error, requests, metrics>>

NextBoundary == validate_body \/ invoke_handler

SpecBoundary == InitBoundary /\ [][NextBoundary]_vars

----------------------------------------------------------------------------
(* Properties *)

\* A request that has passed its handler.
Handled(r) == pc[r] \in {"after_call", "done"}
Answered(r, rq) == pc[r] = "done" /\ req[r] = Some(rq)

\* The risk tier a success response carries, whichever its wording.
Tier(e, response) ==
    IF e = "deployment"
    THEN (IF response.risk = "HIGH" THEN "HIGH" ELSE "LOW")
    ELSE (IF response.risk_level = "HIGH RISK" THEN "HIGH" ELSE "LOW")
TierWellFormed(e, response) ==
    IF e = "deployment"
    THEN response.risk \in {"HIGH", "LOW"}
    ELSE response.risk_level \in {"HIGH RISK", "LOW RISK"}

\* Whether message `part` ends message `whole`.
Carries(whole, part) ==
    /\ Len(part) <= Len(whole)
    /\ SubSeq(whole, Len(whole) - Len(part) + 1, Len(whole)) = part

\* C1: while the model is not loaded, every POST /predict with a schema-valid
\* record fails with a service-unavailable status (503) that carries the
\* recorded load-failure reason, and no model call is attempted.
C1_NotLoadedIsServiceUnavailable ==
    \A r \in Slots :
        (phase = "serving" /\ model = None /\ Answered(r, PostPredict)
            /\ hist[r].valid)
        => /\ resp[r][1].status = 503
           /\ load_error # None
           /\ resp[r][1].detail = load_error[1]
           /\ hist[r].calls = 0

\* C2: in both entry points a failed load (artifact missing or not
\* deserializable) never aborts startup: once the import is over the process
\* serves, with no handle and the reason recorded, the reason naming the path
\* when the path is missing.
C2_LoadFailureNeverAborts ==
    (phase # "import" /\ artifact.state # "ok")
    => /\ phase = "serving"
       /\ model = None
       /\ load_error # None
       /\ (artifact.state = "missing"
              => \E i \in 1..Len(load_error[1]) : load_error[1][i] = MODEL_PATH)

\* The availability message of each entry point.
HealthMessage(e) ==
    IF e = "deployment"
    THEN "Heart Disease Prediction API"
    ELSE "Heart Disease API (MONITORED)"

\* C3: GET / answers 200 with the entry point's static message whatever the
\* model state and whatever requests were served before, and serving it
\* leaves the model handle and the load error as they were.
C3_HealthIsStatic ==
    /\ [](\A r \in Slots :
            (Handled(r) /\ req[r] = Some(GetRoot))
            => /\ ~hist[r].raised
               /\ resp[r][1].status = 200
               /\ resp[r][1].message = HealthMessage(entry)
               /\ hist[r].calls = 0)
    /\ [][\A r \in Slots :
            (pc'[r] # pc[r] /\ req'[r] = Some(GetRoot))
            => UNCHANGED <<model, load_error>>]_vars
C3_Witness ==
    \E r, q \in Slots :
        /\ r # q
        /\ model = None /\ load_error # None
        /\ Answered(q, PostPredict) /\ resp[q][1].status = 400
        /\ Answered(r, GetRoot) /\ resp[r][1].status = 200

\* C4: in every successful /predict decision of either entry point the risk
\* tier is HIGH exactly when the probability exceeds 0.5 (0.5 itself is LOW),
\* whatever the predicted label.
C4_HighIffAboveHalf ==
    \A r \in Slots :
        (Handled(r) /\ req[r] = Some(PostPredict) /\ ~hist[r].raised
            /\ resp[r][1].status = 200)
        => /\ hist[r].locals # None
           /\ TierWellFormed(entry, resp[r][1])
           /\ (Tier(entry, resp[r][1]) = "HIGH"
                 <=> hist[r].locals[1].probability > 50000)
C4_Witness ==
    \E r, q \in Slots :
        /\ entry = "deployment"
        /\ Answered(r, PostPredict) /\ resp[r][1].status = 200
        /\ resp[r][1].probability = 50000 /\ resp[r][1].prediction = 1
        /\ resp[r][1].risk = "LOW"
        /\ Answered(q, PostPredict) /\ resp[q][1].status = 200
        /\ resp[q][1].probability = 50001 /\ resp[q][1].prediction = 0
        /\ resp[q][1].risk = "HIGH"

\* C5: with a handle that has no predict_proba, in each entry point, a
\* /predict whose predict call does not raise succeeds, its probability being
\* the label as a float (0.0 or 1.0) and its tier HIGH exactly for label 1.
C5_FallbackToLabel ==
    \A r \in Slots :
        (model # None /\ ~model[1].has_proba /\ Answered(r, PostPredict)
            /\ hist[r].valid /\ hist[r].exc # Some(PredictError))
        => /\ resp[r][1].status = 200
           /\ hist[r].locals # None
           /\ hist[r].locals[1].probability \in {0, 100000}
           /\ hist[r].locals[1].probability
                = 100000 * hist[r].locals[1].prediction
           /\ (Tier(entry, resp[r][1]) = "HIGH"
                 <=> hist[r].locals[1].prediction = 1)

\* C9: the middleware increments the in-flight gauge once when a request
\* enters and decrements it once when the request leaves, by a response or by
\* an exception; after a single request the gauge is back at its value
\* before the request.
C9_GaugeOnceInOnceOut ==
    \A r \in Slots :
        entry = "docker_monitor"
        => /\ hist[r].incs = (IF pc[r] = "idle" THEN 0 ELSE 1)
           /\ hist[r].decs = (IF pc[r] = "done" THEN 1 ELSE 0)
           /\ (pc[r] = "done" /\ \A q \in Slots \ {r} : pc[q] = "idle")
                 => ACTIVE_USERS = 0
C9_Witness ==
    \E r, q \in Slots :
        /\ entry = "docker_monitor"
        /\ pc[r] = "done" /\ hist[r].raised /\ \A o \in Slots \ {r} : pc[o] = "idle"
        /\ ACTIVE_USERS = 0

\* C10: with a loaded model and a valid in-domain record, /predict lets no
\* exception out: it answers with a decision (200), or, when predict or
\* predict_proba raised, with a client error (4xx) whose detail carries the
\* message of that exception.
C10_NoEscapingException ==
    \A r \in Slots :
        (Handled(r) /\ req[r] = Some(PostPredict) /\ model # None
            /\ hist[r].valid)
        => /\ ~hist[r].raised
           /\ IF hist[r].exc = None
              THEN resp[r][1].status = 200 /\ hist[r].locals # None
              ELSE /\ resp[r][1].status \in 400..499
                   /\ Carries(resp[r][1].detail, hist[r].exc[1])
C10_Witness ==
    \E r, q \in Slots :
        /\ entry = "docker_monitor" /\ model # None /\ model[1].has_proba
        /\ Answered(r, PostPredict) /\ hist[r].valid
        /\ hist[r].exc = Some(ProbaError) /\ resp[r][1].status = 400
        /\ Answered(q, PostPredict) /\ hist[q].valid
        /\ hist[q].exc = Some(PredictError) /\ resp[q][1].status = 400

\* The 13 canonical columns, in order.
Canonical ==
    <<"age", "sex", "cp", "trestbps", "chol", "fbs", "restecg",
      "thalach", "exang", "oldpeak", "slope", "ca", "thal">>

\* C6: for every valid record the data frame handed to the model has exactly
\* the 13 canonical columns in canonical order, each holding the value the
\* body gave for the field of that name, in whatever order the body listed
\* its members; the right-hand side depends on the record alone, so both
\* entry points build the same vector.
C6_CanonicalFeatureVector ==
    probe.stage = "handled"
    => probe.features =
          Some([i \in 1..13 |-> <<Canonical[i], Get(probe.body, Canonical[i]).v>>])
C6_Witness ==
    /\ entry = "deployment"
    /\ probe.stage = "handled"
    /\ probe.calls > 0
    /\ probe.body[1][1] = "thal"
    /\ probe.features[1][1] = <<"age", 60>>
    /\ probe.features[1][13] = <<"thal", 1>>

\* C7: a body that leaves out any of the 13 fields is answered with a
\* validation error (422) at the request boundary; neither the feature
\* vector builder nor the model is reached, no field having a default.
C7_MissingFieldRejected ==
    (probe.stage # "off" /\ \E i \in 1..13 : ~Has(probe.body, Canonical[i]))
    => /\ probe.stage \in {"received", "rejected"}
       /\ probe.features = None
       /\ probe.calls = 0
       /\ (probe.stage = "rejected" => probe.resp = Some(ValidationErrorResponse))
C7_Witness ==
    /\ probe.stage = "rejected"
    /\ ~Has(probe.body, "thal")
    /\ \A i \in 1..12 : Has(probe.body, Canonical[i])
                          /\ Get(probe.body, Canonical[i]).t = "num"
    /\ probe.resp[1].status = 422

\* The declared domain of each field.
InDomain(f, n) ==
    IF f \in {"age", "trestbps", "chol", "thalach"} THEN n > 0
    ELSE IF f \in {"sex", "fbs", "exang"} THEN n \in {0, 1}
    ELSE IF f \in {"cp", "thal"} THEN n \in 0..3
    ELSE IF f \in {"restecg", "slope"} THEN n \in 0..2
    ELSE IF f = "oldpeak" THEN n >= 0
    ELSE n \in 0..4

\* C8: a body in which some field holds a number outside its declared domain
\* is answered with a validation error at the request boundary, so it never
\* reaches the feature vector builder or the model.
C8_OutOfDomainRejected ==
    (probe.stage # "off"
        /\ \E i \in 1..13 :
              /\ Has(probe.body, Canonical[i])
              /\ Get(probe.body, Canonical[i]).t = "num"
              /\ ~InDomain(Canonical[i], Get(probe.body, Canonical[i]).v))
    => /\ probe.stage \in {"received", "rejected"}
       /\ probe.features = None
       /\ probe.calls = 0

\* C11: in the plain deployment, with a handle that has predict_proba and
\* whose calls do not raise, /predict answers 200 with prediction the label
\* predict returned, probability the positive-class entry (index 1) of
\* predict_proba and risk derived from that probability; label 1 with
\* [0.3, 0.7] gives {1, 0.7, "HIGH"} and label 0 with [0.9, 0.1] gives
\* {0, 0.1, "LOW"}.
C11_LabelAndPositiveClass ==
    (entry = "deployment" /\ probe.stage = "handled" /\ model[1].has_proba
        /\ ~probe.out[1].p_raise /\ ~probe.out[1].pp_raise)
    => LET o == probe.out[1]
           r == probe.resp[1]
       IN  /\ r = [status |-> 200, prediction |-> o.label,
                   probability |-> o.proba,
                   risk |-> IF o.proba > 50000 THEN "HIGH" ELSE "LOW"]
           /\ (o.label = 1 /\ predict_proba(o) = <<30000, 70000>>)
                 => r = [status |-> 200, prediction |-> 1,
                         probability |-> 70000, risk |-> "HIGH"]
           /\ (o.label = 0 /\ predict_proba(o) = <<90000, 10000>>)
                 => r = [status |-> 200, prediction |-> 0,
                         probability |-> 10000, risk |-> "LOW"]
C11_Witness ==
    /\ entry = "deployment" /\ probe.stage = "handled" /\ model[1].has_proba
    /\ probe.data = Some(RecordA)
    /\ probe.out[1].label = 1 /\ predict_proba(probe.out[1]) = <<30000, 70000>>
    /\ ~probe.out[1].p_raise /\ ~probe.out[1].pp_raise
    /\ probe.resp[1].prediction = 1 /\ probe.resp[1].probability = 70000
    /\ probe.resp[1].risk = "HIGH"

\* A successful /predict response.
Success(r) ==
    /\ Handled(r) /\ req[r] = Some(PostPredict)
    /\ ~hist[r].raised /\ resp[r][1].status = 200

\* C12: the success response of POST /predict has the same shape in both
\* deployments: prediction in {0, 1}, probability, and risk being "LOW" or
\* "HIGH"; the monitored one has these and, in addition, a rounded confidence
\* and the elapsed time as a string.
C12_SameShapeInBoth ==
    \A r \in Slots :
        Success(r)
        => /\ {"prediction", "probability", "risk"} \subseteq DOMAIN resp[r][1]
           /\ resp[r][1].prediction \in {0, 1}
           /\ resp[r][1].risk \in {"LOW", "HIGH"}
           /\ entry = "docker_monitor"
                 => {"confidence", "response_time"} \subseteq DOMAIN resp[r][1]

\* C12 as amended: the plain success response consists of prediction in
\* {0, 1}, probability and risk ("LOW" or "HIGH"); the monitored one consists
\* of prediction in {0, 1}, confidence (the probability rounded to four
\* decimals, in place of probability), risk_level ("LOW RISK" or "HIGH RISK",
\* in place of risk) and response_time, the elapsed time written as a string.
C12_ShapePerDeployment ==
    \A r \in Slots :
        Success(r)
        => LET body == resp[r][1]
               p == hist[r].locals[1].probability
           IN  /\ body.prediction \in {0, 1}
               /\ IF entry = "deployment"
                  THEN /\ DOMAIN body
                            = {"status", "prediction", "probability", "risk"}
                       /\ body.probability = p
                       /\ body.risk \in {"LOW", "HIGH"}
                  ELSE /\ DOMAIN body
                            = {"status", "prediction", "confidence",
                               "risk_level", "response_time"}
                       /\ body.confidence % 10 = 0
                       /\ body.confidence - p \in (0 - 5)..5
                       /\ body.risk_level \in {"LOW RISK", "HIGH RISK"}
                       /\ Len(body.response_time) = 3
                       /\ body.response_time[2] \in 0..999
                       /\ body.response_time[3] = "s"
C12_Witness ==
    \E r \in Slots :
        /\ entry = "docker_monitor" /\ Success(r) /\ pc[r] = "done"
        /\ hist[r].locals[1].probability = 50001
        /\ resp[r][1].confidence = 50000
        /\ resp[r][1].risk_level = "HIGH RISK"

\* C13: a failing metric operation (request counter, per-label prediction
\* counter, latency histogram, gauge) is swallowed and leaves the outcome of
\* the request as it was: a /predict whose model calls succeeded still
\* answers with its decision.
C13_SinkFailureSwallowed ==
    \A r \in Slots :
        (pc[r] = "done" /\ req[r] = Some(PostPredict) /\ hist[r].locals # None)
        => /\ ~hist[r].raised
           /\ resp[r][1].status = 200
           /\ resp[r][1].prediction = hist[r].locals[1].prediction

\* C14: the load runs once, while the module is imported, and is over before
\* any request is handled; from then on no step, whatever the requests and
\* however they end, changes the model handle or the recorded load error.
C14_LoadOnceThenFrozen ==
    /\ [][phase # "import"
            => /\ phase' = phase
               /\ model' = model
               /\ load_error' = load_error]_vars
    /\ [](\A r \in Slots : pc[r] # "idle" => phase = "serving")

\* The load failed, every request has been answered, one of them a /predict
\* that ended in the except branch, and the handle is still absent.
C14_Witness ==
    /\ entry = "deployment"
    /\ phase = "serving"
    /\ model = None
    /\ \A r \in Slots : pc[r] = "done"
    /\ \E r \in Slots : req[r] = Some(PostPredict) /\ resp[r][1].status = 400
    /\ \E r \in Slots : req[r] = Some(GetRoot)

\* C17: once the plain deployment's load is over, exactly one of model and
\* load_error is set: a handle without a reason, or a reason without a handle.
C17_ExactlyOneOfModelAndError ==
    (entry = "deployment" /\ phase # "import")
    => \/ model # None /\ load_error = None
       \/ model = None /\ load_error # None

\* The artifact could not be deserialized: the reason is recorded and the
\* handle is absent.
C17_Witness ==
    /\ entry = "deployment"
    /\ phase = "serving"
    /\ artifact.state = "corrupt"
    /\ model = None
    /\ load_error = Some(DeserializeError)

\* The requests that have entered the middleware and not yet left it.
InFlight == {r \in Slots : pc[r] \in {"call_next", "after_call"}}

\* C15: under any interleaving of the requests passing through the metrics
\* middleware the gauge equals the number of requests that have entered and
\* not yet exited, so it is never negative and never above their number, and
\* it is back at its initial value once all of them have completed, whatever
\* mix of them succeeded or raised.
C15_GaugeCountsInFlight ==
    entry = "docker_monitor"
    => /\ ACTIVE_USERS = Cardinality(InFlight)
       /\ ACTIVE_USERS >= 0
       /\ ACTIVE_USERS <= NReq
       /\ (\A r \in Slots : pc[r] = "done") => ACTIVE_USERS = 0

\* Every request is inside the middleware at once, one whose downstream call
\* raised and one whose call returned, and the gauge counts them all.
C15_Witness ==
    /\ entry = "docker_monitor"
    /\ \A r \in Slots : pc[r] = "after_call"
    /\ \E r, q \in Slots : hist[r].raised /\ ~hist[q].raised
    /\ ACTIVE_USERS = NReq

Count(counter, labels) ==
    IF labels \in DOMAIN counter THEN counter[labels] ELSE 0

RequestLabels ==
    {<<rq.method, rq.path, st>> :
        rq \in {GetRoot, PostPredict, GetMetrics}, st \in {200, 400, 422, 500}}

\* The completed requests whose outcome is st: the status of the response,
\* 500 when the downstream call raised.
Completed(rq, st) ==
    {r \in Slots :
        /\ Answered(r, rq)
        /\ (IF hist[r].raised THEN 500 ELSE resp[r][1].status) = st}

\* The /predict requests whose handler has returned a decision for label.
Predicted(label) ==
    {r \in Slots : Success(r) /\ resp[r][1].prediction = label}

\* C16: in the monitored deployment every request increments the request
\* counter exactly once, labelled with its outcome (the response status, 500
\* when the handler raised), and the prediction counter is incremented exactly
\* once, for the returned label, on every successful /predict and not at all
\* on one in which predict or predict_proba raised; so the per-label counts
\* add up to the number of successful predictions.
C16_CountersExactlyOnce ==
    entry = "docker_monitor"
    => /\ DOMAIN REQUEST_COUNT \subseteq RequestLabels
       /\ \A l \in RequestLabels :
             Count(REQUEST_COUNT, l)
                = Cardinality(Completed([method |-> l[1], path |-> l[2]], l[3]))
       /\ DOMAIN PREDICTIONS \subseteq {<<"0">>, <<"1">>}
       /\ Count(PREDICTIONS, <<"0">>) = Cardinality(Predicted(0))
       /\ Count(PREDICTIONS, <<"1">>) = Cardinality(Predicted(1))
       /\ Count(PREDICTIONS, <<"0">>) + Count(PREDICTIONS, <<"1">>)
             = Cardinality({r \in Slots : Success(r)})
       /\ \A r \in Slots :
             (Handled(r) /\ req[r] = Some(PostPredict) /\ hist[r].exc # None)
             => ~Success(r)

\* Two /predict requests have completed, one with a decision for label 1 and
\* one in which a model call raised: the first is counted under its label and
\* under 200, the second under 400 only.
C16_Witness ==
    /\ entry = "docker_monitor"
    /\ \A r \in Slots : Answered(r, PostPredict)
    /\ \E r, q \in Slots :
          /\ Success(r) /\ resp[r][1].prediction = 1
          /\ hist[q].exc # None /\ resp[q][1].status = 400
    /\ PREDICTIONS = (<<"1">> :> 1)
    /\ Count(REQUEST_COUNT, <<"POST", "/predict", 400>>) = 1
    /\ Count(REQUEST_COUNT, <<"POST", "/predict", 200>>) = NReq - 1

Range(seq) == {seq[i] : i \in DOMAIN seq}

\* The column labels of a data frame.
Columns(df) == {df[i][1] : i \in DOMAIN df}

\* C18: the columns the training pipeline is fit on agree with the serving
\* schema: the numeric and the categorical feature list are disjoint and
\* together are exactly the 13 columns either entry point puts into the
\* feature vector, so every column the pipeline looks up by name is in every
\* served vector and no served column is unused.
C18_TrainingColumnsAreServedColumns ==
    LET fitted == Range(numeric_features) \cup Range(categorical_features)
    IN  /\ Range(numeric_features) \cap Range(categorical_features) = {}
        /\ Cardinality(Range(numeric_features)) = Len(numeric_features)
        /\ Cardinality(Range(categorical_features)) = Len(categorical_features)
        /\ Cardinality(fitted) = 13
        /\ (probe.stage = "handled" /\ probe.features # None)
           => /\ Len(probe.features[1]) = 13
              /\ \A c \in fitted : \E i \in 1..13 : probe.features[1][i][1] = c
              /\ Columns(probe.features[1]) \subseteq fitted

\* The monitored entry point has built the vector of a record: its ca column,
\* which training scales as a number, and its thal column, which training
\* encodes as a category, are there.
C18_Witness ==
    /\ entry = "docker_monitor"
    /\ probe.stage = "handled"
    /\ probe.features # None
    /\ probe.features[1][12][1] = "ca"
    /\ "ca" \in Range(numeric_features)
    /\ probe.features[1][13][1] = "thal"
    /\ "thal" \in Range(categorical_features)

====
